---- MODULE Spec2Model ----
(***************************************************************************)
(* Model of ds.cdll: Node and CDLList, a circular doubly linked list.      *)
(* The heap of Node objects is modelled explicitly (value, left, right     *)
(* fields per node identity), so that every pointer assignment of the      *)
(* source is one functional update of the heap, in source order.           *)
(***************************************************************************)
EXTENDS Integers, Sequences, FiniteSets, TLC

\* Bounds of the model.
MaxLen == 5          \* longest input sequence handed to the constructor
MaxCalls == 2        \* public calls made on a container after construction
MaxVals == 2         \* longest iterable handed to extend / range write

\* The length of the CLList that the test fixture cll_data builds, range(10).
FixtureLen == 10

\* A container never holds more than MaxLen + MaxCalls * MaxVals elements,
\* and a call allocates at most as many nodes as the container holds
\* (c[r] = c[r]) or MaxVals nodes.
MaxNodes == 2 * (MaxLen + MaxCalls * MaxVals)
Nodes == 1..MaxNodes
None == 0            \* Python None / absent attribute
OutOfRange == 0 - 1  \* marks peek raising IndexError

VARIABLES
    value,   \* Node._value, per node
    left,    \* Node._left, per node
    right,   \* Node._right, per node
    head,    \* CDLList._head (None when the attribute is absent)
    size,    \* CDLList._size
    calls,   \* number of public calls made since construction
    last     \* the last public call: its name, arguments, result and error

vars == <<value, left, right, head, size, calls, last>>

----------------------------------------------------------------------------
(* Heap records.  A container record c carries the heap and the fields of  *)
(* the container an operation works on, the set of node identities in use, *)
(* and the outcome (returned value, raised error) of the call so far.      *)

Min(S) == CHOOSE x \in S : \A y \in S : x <= y

\* The nodes reachable from node n over left/right links.
RECURSIVE Closure(_, _, _)
Closure(l, r, S) ==
    LET T == S \cup {l[n] : n \in S} \cup {r[n] : n \in S}
    IN IF T = S THEN S ELSE Closure(l, r, T)

Reach(c) == IF c.head = None THEN {} ELSE Closure(c.left, c.right, {c.head})

\* raise / return: ret holds the returned values as a sequence, kind says
\* what is returned ("none", "value", "values", "self", "new").
Raise(c, e) == [c EXCEPT !.err = e]
Return(c, v) == [c EXCEPT !.ret = <<v>>, !.kind = "value"]
Failed(c) == c.err # "none"

\* Node.__init__: a node with no explicit neighbour links to itself.
\* The result is the container record with field new naming the node.
NodeAt(c, n, v, l, r) ==
    [c EXCEPT !.value[n] = v,
              !.left[n] = IF l = None THEN n ELSE l,
              !.right[n] = IF r = None THEN n ELSE r,
              !.used = @ \cup {n},
              !.new = n]

NodeInit(c, v, l, r) == NodeAt(c, Min(Nodes \ c.used), v, l, r)

\* Node.left / Node.right setters (None is coerced to the node itself).
left_set(c, n, l) == [c EXCEPT !.left[n] = IF l = None THEN n ELSE l]
right_set(c, n, r) == [c EXCEPT !.right[n] = IF r = None THEN n ELSE r]

\* A size setter that keeps the head attribute when the size becomes zero.
size_set_KeepsHead(c, v) ==
    IF v < 0 THEN Raise(c, "ValueError") ELSE [c EXCEPT !.size = v]

\* CDLList.size setter: setting zero drops the head attribute.
size_set(c, v) ==
    IF v < 0 THEN Raise(c, "ValueError")
    ELSE [c EXCEPT !.head = IF v = 0 THEN None ELSE @, !.size = v]

\* self.size += k
size_add(c, k) == size_set(c, c.size + k)

\* CDLList.head setter.
head_set(c, n) == [c EXCEPT !.head = n]

\* return n.value
ReturnValueOf(c, n) == Return(c, c.value[n])

\* CDLList.clear
clear(c) == size_set(c, 0)

\* CDLList.iter_nodes(cycle=False, reverse): the sequence of nodes yielded.
\* ends is FALSE when the walk never comes back to head (the generator
\* yields for ever); nodes then holds the first MaxNodes + 1 nodes.
RECURSIVE IterWalk(_, _, _, _, _)
IterWalk(c, reverse, current, acc, fuel) ==
    IF (IF reverse THEN c.left[current] ELSE c.right[current]) = c.head
    THEN [nodes |-> IF reverse THEN Append(Append(acc, current), c.head)
                    ELSE Append(acc, current),
          ends |-> TRUE]
    ELSE IF fuel = 0 THEN [nodes |-> Append(acc, current), ends |-> FALSE]
    ELSE IterWalk(c, reverse, IF reverse THEN c.left[current] ELSE c.right[current],
                  Append(acc, current), fuel - 1)

iter_nodes(c, reverse) ==
    IF c.size = 0 THEN [nodes |-> <<>>, ends |-> TRUE]
    ELSE IterWalk(c, reverse, IF reverse THEN c.left[c.head] ELSE c.head,
                  <<>>, MaxNodes)

\* The i-th node (from 0) that iter_nodes yields, None if it stops before.
RECURSIVE NthYield(_, _, _, _, _)
NthYield(c, reverse, current, i, index) ==
    IF i = index THEN current
    ELSE IF (IF reverse THEN c.left[current] ELSE c.right[current]) = c.head
    THEN (IF reverse /\ i + 1 = index THEN c.head ELSE None)
    ELSE NthYield(c, reverse, IF reverse THEN c.left[current] ELSE c.right[current],
                  i + 1, index)

\* The body of peek once the index is normalized and in range: the
\* direction is chosen by index > size // 2.
PeekAt(c, idx) ==
    IF idx > (c.size \div 2)
    THEN NthYield(c, TRUE, c.left[c.head], 0, c.size - idx - 1)
    ELSE NthYield(c, FALSE, c.head, 0, idx)

\* index + size for a negative index
Normalize(c, index) == IF index < 0 THEN index + c.size ELSE index

\* CDLList.peek(index, node=True, errors='raise'): the node at index,
\* None when the traversal ends before the index, OutOfRange when it raises.
peek(c, index) ==
    IF Normalize(c, index) < 0 \/ Normalize(c, index) >= c.size THEN OutOfRange
    ELSE PeekAt(c, Normalize(c, index))

\* peek: the branch taken when the normalized index is out of range
PeekOutside(c, errors) ==
    IF errors = "ignore" THEN Return(c, None)
    ELSE IF errors = "raise" THEN Raise(c, "IndexError")
    ELSE Raise(c, "ValueError")

\* CDLList.peek(index, node=False, errors): the value at index; None when
\* the traversal ends before the index.
peek_value(c, index, errors) ==
    IF peek(c, index) = OutOfRange THEN PeekOutside(c, errors)
    ELSE IF peek(c, index) = None THEN Return(c, None)
    ELSE Return(c, c.value[peek(c, index)])

\* popleft: self.head.right.left = self.head.left
PopleftRelink(c) == left_set(c, c.right[c.head], c.left[c.head])
\* popleft: self.head = self.head.right
PopleftReseat(c) == head_set(c, c.right[c.head])

\* CDLList.popleft
popleft(c) ==
    IF c.size = 0 THEN Raise(c, "EmptyInstanceHeadAccess")
    ELSE IF c.size = 1 THEN Return(size_set(c, 0), c.value[c.head])
    ELSE Return(size_add(PopleftReseat(PopleftRelink(c)), 0 - 1), c.value[c.head])

\* pop: ith_node.left.right = ith_node.right
PopRelinkRight(c, ith) == right_set(c, c.left[ith], c.right[ith])
\* pop: ith_node.right.left = ith_node.left
PopRelinkLeft(c, ith) == left_set(c, c.right[ith], c.left[ith])

\* pop, from the peek on: unlink the node and return its value.
PopNode(c, ith) ==
    IF ith = None THEN Raise(c, "AttributeError")
    ELSE ReturnValueOf(size_add(PopRelinkLeft(PopRelinkRight(c, ith), ith), 0 - 1), ith)

\* pop, once the index is normalized.
PopAt(c, idx) ==
    IF idx < 0 \/ idx >= c.size THEN Raise(c, "IndexError")
    ELSE IF c.size = 0 THEN Raise(c, "EmptyInstanceHeadAccess")
    ELSE IF c.size = 1 THEN Return(size_set(c, 0), c.value[c.head])
    ELSE IF idx = 0 THEN popleft(c)
    ELSE PopNode(c, PeekAt(c, idx))

\* CDLList.pop
pop(c, index) == PopAt(c, Normalize(c, index))

\* append / appendleft on an empty container: self.head = Node(value)
FirstNode(c) == head_set(c, c.new)
\* self.head.left.right = node  (also self.tail.right = node)
LinkTailToNew(c) == right_set(c, c.left[c.head], c.new)
\* The statement left out: the head keeps its old left neighbour.
LinkHeadToNew_Skipped(c) == c

\* self.head.left = node
LinkHeadToNew(c) == left_set(c, c.head, c.new)
\* appendleft: self.head = node
SeatNew(c) == head_set(c, c.new)

\* CDLList.appendleft
appendleft(c, v) ==
    IF c.size = 0
    THEN size_add(FirstNode(NodeInit(c, v, None, None)), 1)
    ELSE size_add(SeatNew(LinkHeadToNew(LinkTailToNew(
             NodeInit(c, v, c.left[c.head], c.head)))), 1)

\* CDLList.append
append(c, v) ==
    IF c.size = 0
    THEN size_add(FirstNode(NodeInit(c, v, None, None)), 1)
    ELSE size_add(LinkHeadToNew(LinkTailToNew(
             NodeInit(c, v, c.left[c.head], c.head))), 1)

\* insert: ith_node.left.right = Node(value, left=ith_node.left, right=ith_node)
InsertLinkRight(c, ith) == right_set(c, c.left[ith], c.new)
\* insert: ith_node.left = ith_node.right
InsertLinkLeft(c, ith) == left_set(c, ith, c.right[ith])

\* insert, from the peek on.
InsertBefore(c, ith, v) ==
    IF ith = None THEN Raise(c, "AttributeError")
    ELSE size_add(InsertLinkLeft(InsertLinkRight(
             NodeInit(c, v, c.left[ith], ith), ith), ith), 1)

\* insert, once the index is normalized.
InsertAt(c, idx, v) ==
    IF idx < 0 \/ idx > c.size THEN Raise(c, "IndexError")
    ELSE IF idx = 0 THEN appendleft(c, v)
    ELSE IF idx = c.size THEN append(c, v)
    ELSE InsertBefore(c, PeekAt(c, idx), v)

\* An insert that puts the value at the end when the index is out of range.
insert_Clamped(c, index, v) ==
    IF Normalize(c, index) < 0 \/ Normalize(c, index) > c.size THEN append(c, v)
    ELSE InsertAt(c, Normalize(c, index), v)

\* CDLList.insert
insert(c, index, v) == InsertAt(c, Normalize(c, index), v)

\* CDLList.from_iterable: a new container built by append, on the same heap.
\* The result's head and size are those of the new container.
RECURSIVE AppendAll(_, _, _)
AppendAll(c, vs, k) ==
    IF k > Len(vs) THEN c ELSE AppendAll(append(c, vs[k]), vs, k + 1)

from_iterable(c, vs) == AppendAll([c EXCEPT !.head = None, !.size = 0], vs, 1)

\* The heap of record new, seen again as container c.
Self(new, c) == [new EXCEPT !.head = c.head, !.size = c.size]

\* extend: self.head.left.right = new.head
ExtendLinkTail(c, nh) == right_set(c, c.left[c.head], nh)
\* extend: new.head.left = self.head.left
ExtendLinkNewHead(c, nh) == left_set(c, nh, c.left[c.head])
\* extend: self.head.left = new.tail   (new.tail is new.head.left)
ExtendLinkHead(c, nh) == left_set(c, c.head, c.left[nh])
\* extend: new.tail.right = self.head
ExtendLinkNewTail(c, nh) == right_set(c, c.left[nh], c.head)

\* extend, once the new container is built.
ExtendWith(c, new) ==
    IF new.size = 0 THEN Self(new, c)
    ELSE IF c.size = 0 THEN size_set(head_set(Self(new, c), new.head), new.size)
    ELSE size_add(ExtendLinkNewTail(ExtendLinkHead(ExtendLinkNewHead(ExtendLinkTail(
             Self(new, c), new.head), new.head), new.head), new.head), new.size)

\* CDLList.extend
extend(c, vs) == ExtendWith(c, from_iterable(c, vs))

----------------------------------------------------------------------------
(* Ranges.  A slice is a record whose start, stop and step are <<>> for    *)
(* None and <<n>> for the integer n.                                       *)

\* _validate_integer_slice: the error of [][start:stop:step], "none" if none.
validate_integer_slice(sl) ==
    IF sl.step # <<>> /\ sl.step[1] = 0 THEN "ValueError" ELSE "none"

\* slice.indices: one bound clamped for a step and a length.
AdjustIndex(x, step, length) ==
    IF x < 0
    THEN (IF x + length < (IF step < 0 THEN 0 - 1 ELSE 0)
          THEN (IF step < 0 THEN 0 - 1 ELSE 0) ELSE x + length)
    ELSE (IF x > (IF step < 0 THEN length - 1 ELSE length)
          THEN (IF step < 0 THEN length - 1 ELSE length) ELSE x)

IndicesFor(sl, step, length) ==
    [start |-> IF sl.start = <<>>
               THEN (IF step < 0 THEN length - 1 ELSE 0)
               ELSE AdjustIndex(sl.start[1], step, length),
     stop |-> IF sl.stop = <<>>
              THEN (IF step < 0 THEN 0 - 1 ELSE length)
              ELSE AdjustIndex(sl.stop[1], step, length),
     step |-> step]

\* range(*slice.indices(length)), for a slice that validates.
SliceIndices(sl, length) ==
    IndicesFor(sl, IF sl.step = <<>> THEN 1 ELSE sl.step[1], length)

\* raise InvalidIntegerSliceError(orig=err): the exception's __init__ hands the
\* keyword orig on to ValueError.__init__, which takes no keyword arguments,
\* so the construction itself fails and a TypeError is what propagates.
RaiseInvalidIntegerSlice(c) == Raise(c, "TypeError")

\* len(range(start, stop, step))
RangeLen(r) ==
    IF r.step > 0
    THEN (IF r.start < r.stop THEN ((r.stop - r.start - 1) \div r.step) + 1 ELSE 0)
    ELSE (IF r.start > r.stop THEN ((r.start - r.stop - 1) \div (0 - r.step)) + 1 ELSE 0)

\* list(range(start, stop, step))
RangeSeq(r) == [k \in 1..RangeLen(r) |-> r.start + (k - 1) * r.step]

\* x in range(start, stop, step)
InRange(x, r) == \E k \in 1..RangeLen(r) : r.start + (k - 1) * r.step = x

Reverse(s) == [k \in 1..Len(s) |-> s[Len(s) + 1 - k]]

IntSlice(a, b, st) == [start |-> <<a>>, stop |-> <<b>>, step |-> <<st>>]

\* for i in points: self.pop(i)
RECURSIVE PopEach(_, _, _)
PopEach(c, pts, k) ==
    IF k > Len(pts) \/ Failed(c) THEN c ELSE PopEach(pop(c, pts[k]), pts, k + 1)

\* delitem: del_from.left.right = del_till.right
DelRelinkRight(c, del_from, del_till) == right_set(c, c.left[del_from], c.right[del_till])
\* delitem: del_till.right.left = del_from.left
DelRelinkLeft(c, del_from, del_till) == left_set(c, c.right[del_till], c.left[del_from])
\* delitem: if 0 in points and self.size > 0: self.head = del_till.right
DelReseat(c, points, del_till) ==
    IF InRange(0, points) /\ c.size > 0 THEN head_set(c, c.right[del_till]) ELSE c

\* delitem with step +1 or -1, from the two peeks on.
DelBetween(c, points, del_from, del_till) ==
    IF del_from = OutOfRange \/ del_till = OutOfRange THEN Raise(c, "IndexError")
    ELSE IF del_from = None \/ del_till = None THEN Raise(c, "AttributeError")
    ELSE DelReseat(size_add(DelRelinkLeft(DelRelinkRight(c, del_from, del_till),
                                          del_from, del_till),
                            0 - RangeLen(points)),
                   points, del_till)

\* delitem, once the range is normalized.
DelPoints(c, points) ==
    IF RangeLen(points) = c.size THEN clear(c)
    ELSE IF RangeLen(points) = 0 \/ c.size = 0 THEN c
    ELSE IF points.step = 1
    THEN DelBetween(c, points, peek(c, points.start), peek(c, points.stop - 1))
    ELSE IF points.step = 0 - 1
    THEN DelBetween(c, points, peek(c, points.stop + 1), peek(c, points.start))
    ELSE PopEach(c, IF points.start < points.stop
                    THEN Reverse(RangeSeq(points)) ELSE RangeSeq(points), 1)

\* A call that returns None, whatever the calls it made returned.
NoReturn(c) == [c EXCEPT !.ret = <<>>, !.kind = "none"]

\* CDLList.__delitem__ with a slice
delitem_slice(c, sl) ==
    IF validate_integer_slice(sl) # "none" THEN RaiseInvalidIntegerSlice(c)
    ELSE NoReturn(DelPoints(c, SliceIndices(sl, c.size)))

\* CDLList.__delitem__ with an int
delitem_int(c, index) == NoReturn(pop(c, index))

\* setitem with an int, from the peek on: node.value = value
SetNode(c, n, v) ==
    IF n = OutOfRange THEN Raise(c, "IndexError")
    ELSE IF n = None THEN Raise(c, "AttributeError")
    ELSE [c EXCEPT !.value[n] = v]

\* CDLList.__setitem__ with an int
setitem_int(c, index, v) == SetNode(c, peek(c, index), v)

\* for i, value in zip(points, value, strict=True): self[i] = value
RECURSIVE SetEach(_, _, _, _)
SetEach(c, pts, vs, k) ==
    IF k > Len(pts) \/ Failed(c) THEN c
    ELSE SetEach(setitem_int(c, pts[k], vs[k]), pts, vs, k + 1)

\* setitem: set_after.right = new.head
SpliceLinkAfter(c, nh, set_after) == right_set(c, set_after, nh)
\* setitem: set_until.left = new.tail
SpliceLinkUntil(c, nh, set_until) == left_set(c, set_until, c.left[nh])
\* setitem: new.tail.right = set_until
SpliceLinkNewTail(c, nh, set_until) == right_set(c, c.left[nh], set_until)
\* setitem: new.head.left = set_after
SpliceLinkNewHead(c, nh, set_after) == left_set(c, nh, set_after)
\* setitem: if 0 in points: self.head = new.head
SpliceReseat(c, points, nh) == IF InRange(0, points) THEN head_set(c, nh) ELSE c

\* setitem with step 1: the new chain goes between set_after and set_until.
SpliceBetween(c, points, nh, n, set_after, set_until) ==
    size_add(SpliceReseat(SpliceLinkNewHead(SpliceLinkNewTail(SpliceLinkUntil(
        SpliceLinkAfter(c, nh, set_after), nh, set_until), nh, set_until),
        nh, set_after), points, nh), n)

\* setitem with step 1, from the peek of set_after on.
SpliceAfter(c, points, nh, n, set_after) ==
    IF set_after = OutOfRange THEN Raise(c, "IndexError")
    ELSE IF set_after = None THEN Raise(c, "AttributeError")
    ELSE SpliceBetween(c, points, nh, n, set_after, c.right[set_after])

\* setitem with step 1, after del self[start:stop:step].
Splice(d, points, new) ==
    IF Failed(d) \/ new.size = 0 THEN d
    ELSE SpliceAfter(d, points, new.head, new.size, peek(d, points.start - 1))

\* setitem with a slice that is not the whole container with step 1.
SetWith(c, points, vs, new) ==
    IF points.step = 1
    THEN Splice(delitem_slice(Self(new, c), IntSlice(points.start, points.stop, 1)),
                points, new)
    ELSE IF RangeLen(points) # new.size THEN Raise(Self(new, c), "ValueError")
    ELSE SetEach(Self(new, c), RangeSeq(points), vs, 1)

\* setitem, once the range is normalized.
SetPoints(c, points, vs) ==
    IF RangeLen(points) = c.size /\ points.step = 1
    THEN extend(clear(c), IF points.step < 0 THEN Reverse(vs) ELSE vs)
    ELSE SetWith(c, points, vs, from_iterable(c, vs))

\* CDLList.__setitem__ with a slice and a list of values
setitem_slice(c, sl, vs) ==
    IF validate_integer_slice(sl) # "none" THEN RaiseInvalidIntegerSlice(c)
    ELSE SetPoints(c, SliceIndices(sl, c.size), vs)

\* CDLList.extend with a value that is no iterable: assert_types(values=
\* Iterable) fails before the body runs.
extend_scalar(c) == Raise(c, "AssertionError")

\* setitem with a value that is no iterable, once the range is normalized:
\* the whole container with step 1 is cleared before extend is called, any
\* other range calls from_iterable first, whose assert_types fails.
SetPointsScalar(c, points) ==
    IF RangeLen(points) = c.size /\ points.step = 1
    THEN extend_scalar(clear(c))
    ELSE Raise(c, "AssertionError")

\* CDLList.__setitem__ with a slice and a value that is no iterable
setitem_slice_scalar(c, sl) ==
    IF validate_integer_slice(sl) # "none" THEN RaiseInvalidIntegerSlice(c)
    ELSE SetPointsScalar(c, SliceIndices(sl, c.size))

\* CDLList.__getitem__ with an int: peek(index, node=False, errors='raise').
\* A traversal that ends before the index makes peek return None.
getitem_int(c, index) ==
    IF peek(c, index) = OutOfRange THEN Raise(c, "IndexError")
    ELSE IF peek(c, index) = None THEN Return(c, None)
    ELSE Return(c, c.value[peek(c, index)])

\* self[i] for i in range(start, stop, step), as from_iterable consumes it.
RECURSIVE GetEach(_, _, _, _)
GetEach(c, pts, k, acc) ==
    IF k > Len(pts) THEN [c EXCEPT !.ret = acc, !.kind = "new"]
    ELSE IF Failed(getitem_int(c, pts[k])) THEN getitem_int(c, pts[k])
    ELSE GetEach(c, pts, k + 1, acc \o getitem_int(c, pts[k]).ret)

\* CDLList.__getitem__ with a slice.  The result is a container built by
\* from_iterable on nodes of its own; it is reported by its content.
getitem_slice(c, sl) ==
    IF validate_integer_slice(sl) # "none" THEN RaiseInvalidIntegerSlice(c)
    ELSE GetEach(c, RangeSeq(SliceIndices(sl, c.size)), 1, <<>>)

\* c[sl] = g, where g is the outcome of reading c[sl].
WriteBackWith(c, sl, g) ==
    IF Failed(g) THEN Raise(c, g.err) ELSE setitem_slice(c, sl, g.ret)

\* c[sl] = c[sl]: __getitem__ with a slice, then __setitem__ with its result.
writeback(c, sl) == WriteBackWith(c, sl, getitem_slice(c, sl))

----------------------------------------------------------------------------
(* Iteration and rotation.                                                 *)

ValuesOf(c, nodes) == [k \in 1..Len(nodes) |-> c.value[nodes[k]]]

\* list(iter(c)) / list(reversed(c)) from the nodes iter_nodes yields.
\* An iteration that never comes back to head is reported as "NonTermination".
Collected(c, it, kind) ==
    IF it.ends THEN [c EXCEPT !.ret = ValuesOf(c, it.nodes), !.kind = kind]
    ELSE Raise(c, "NonTermination")

\* CDLList.__iter__ / CDLList.__reversed__, run to exhaustion.
iterate(c, reverse) == Collected(c, iter_nodes(c, reverse), "values")

\* CDLList.copy: from_iterable(self).  The copy lives on its own nodes; it is
\* reported by its content.
copy(c) == Collected(c, iter_nodes(c, FALSE), "new")

\* CDLList.copy with the copy built next to the original: from_iterable
\* appends every value the iteration of c yields to a new container on new
\* nodes.  The result's head and size are those of the copy.
CopyOn(c) == from_iterable(c, ValuesOf(c, iter_nodes(c, FALSE).nodes))

\* What __eq__ reads of a container: its size and its forward iteration.
View(c) ==
    [size |-> c.size, vals |-> ValuesOf(c, iter_nodes(c, FALSE).nodes),
     ends |-> iter_nodes(c, FALSE).ends]

\* A container built from the sequence vs, as __eq__ reads it.
ViewOfBuilt(vs) == [size |-> Len(vs), vals |-> vs, ends |-> TRUE]

\* all(s == o for s, o in zip(self, other, strict=True)) from the k-th pair
\* on: "true", "false" (a pair differs, or zip raises the ValueError that
\* __eq__ catches because one side ends before the other), or
\* "NonTermination" when neither happens.
RECURSIVE ZipAll(_, _, _)
ZipAll(a, b, k) ==
    IF k > Len(a.vals) /\ a.ends
    THEN (IF k > Len(b.vals) /\ b.ends THEN "true" ELSE "false")
    ELSE IF k > Len(b.vals) /\ b.ends THEN "false"
    ELSE IF k > Len(a.vals) \/ k > Len(b.vals) THEN "NonTermination"
    ELSE IF a.vals[k] # b.vals[k] THEN "false"
    ELSE ZipAll(a, b, k + 1)

\* An equality that compares the sizes only.
Equal_SizesOnly(a, b) == IF a.size # b.size THEN "false" ELSE "true"

\* CDLList.__eq__ on two containers
Equal(a, b) == IF a.size # b.size THEN "false" ELSE ZipAll(a, b, 1)

\* The outcome of a comparison that answers r.
Answer(c, r) ==
    IF r = "NonTermination" THEN Raise(c, r)
    ELSE [c EXCEPT !.ret = <<r = "true">>, !.kind = "bool"]

\* c == CDLList(vs) and CDLList(vs) == c
eq(c, vs) == Answer(c, Equal(View(c), ViewOfBuilt(vs)))
eq_reflected(c, vs) == Answer(c, Equal(ViewOfBuilt(vs), View(c)))

\* The comparison rel of the integers m and n.
IntCompare(rel, m, n) ==
    CASE rel = "lt" -> m < n
      [] rel = "le" -> m <= n
      [] rel = "gt" -> m > n
      [] rel = "ge" -> m >= n

\* An ordering that compares the sizes also when one of them is 0.
Ordered_Plain(rel, m, n) == IntCompare(rel, m, n)

\* CDLList.__lt__, __le__, __gt__, __ge__ on containers of sizes m and n:
\* self.size < o.size if (self.size and o.size) else True, and so on.
Ordered(rel, m, n) ==
    IF m # 0 /\ n # 0 THEN IntCompare(rel, m, n) ELSE rel \in {"lt", "le"}

\* c rel CDLList(vs), or CDLList(vs) rel c when the container is the right
\* operand.
order(c, rel, vs, side) ==
    [c EXCEPT !.ret = <<IF side = "left" THEN Ordered(rel, c.size, Len(vs))
                                          ELSE Ordered(rel, Len(vs), c.size)>>,
              !.kind = "bool"]

\* The tail of __rshift__ / __lshift__: self.head = peek(...); return self
Reseat(c, n) ==
    IF n = OutOfRange THEN Raise(c, "IndexError")
    ELSE IF n = None THEN Raise(c, "ValueError")
    ELSE [head_set(c, n) EXCEPT !.kind = "self"]

\* CDLList.__rshift__ and CDLList.__lshift__ (toLeft), which call each other.
RECURSIVE shift(_, _, _)
shift(c, by, toLeft) ==
    IF by = 0 THEN copy(c)
    ELSE IF by < 0 THEN shift(c, 0 - by, ~toLeft)
    ELSE IF by >= c.size
    THEN (IF c.size # 0 THEN [c EXCEPT !.kind = "self"]
          ELSE Raise(c, "ZeroDivisionError"))
    ELSE IF by > (c.size \div 2) THEN shift(c, c.size - by, ~toLeft)
    ELSE Reseat(c, peek(c, IF toLeft THEN 0 - by ELSE by))

\* A right rotation that moves the head the other way.
rshift_Leftwards(c, by) == shift(c, by, TRUE)

rshift(c, by) == shift(c, by, FALSE)
lshift(c, by) == shift(c, by, TRUE)

\* CDLList.head getter (reading an absent _head is an AttributeError)
head_get(c) ==
    IF c.size = 0 THEN Raise(c, "EmptyInstanceHeadAccess")
    ELSE IF c.head = None THEN Raise(c, "AttributeError")
    ELSE [c EXCEPT !.ret = <<c.head>>, !.kind = "node"]

\* A tail read off the wrong side of the head.
tail_get_Right(c) ==
    IF c.size = 0 THEN Raise(c, "EmptyInstanceHeadAccess")
    ELSE [c EXCEPT !.ret = <<c.right[c.head]>>, !.kind = "node"]

\* CDLList.tail getter
tail_get(c) ==
    IF c.size = 0 THEN Raise(c, "EmptyInstanceHeadAccess")
    ELSE IF c.head = None THEN Raise(c, "AttributeError")
    ELSE [c EXCEPT !.ret = <<c.left[c.head]>>, !.kind = "node"]

----------------------------------------------------------------------------
(* Partition and concatenation.  The containers these operations return    *)
(* are built on nodes of their own by append and from_iterable; they are   *)
(* reported by their contents.                                             *)

\* (c >> by) << by: << acts on what >> returned, the receiver itself or, for
\* by = 0, a copy of it.
ShiftBack(g, by) ==
    IF Failed(g) THEN g
    ELSE IF g.kind = "new" THEN g
    ELSE lshift([g EXCEPT !.kind = "none"], by)

roundtrip(c, by) == ShiftBack(rshift(c, by), by)

\* __floordiv__: i and i in points, with points = range(0, stop, step)
InPoints(i, step, stop) == i # 0 /\ i < stop /\ i % step = 0

\* __floordiv__: result after the if/else of one turn of the loop
TurnResult(i, step, stop, result, new) ==
    IF InPoints(i, step, stop) THEN Append(result, new) ELSE result

\* __floordiv__: new after the if/else of one turn of the loop
TurnNew(vals, i, step, stop, new) ==
    IF InPoints(i, step, stop) THEN <<vals[i + 1]>> ELSE Append(new, vals[i + 1])

\* __floordiv__: for i, val in enumerate(self), over the values vals that
\* the iteration yields.  When the iteration ends before i + 1 reaches stop
\* the chunk in hand is never put into result.
RECURSIVE DivideLoop(_, _, _, _, _, _)
DivideLoop(vals, i, step, stop, result, new) ==
    IF i >= Len(vals) THEN result
    ELSE IF i + 1 = stop
    THEN Append(TurnResult(i, step, stop, result, new),
                TurnNew(vals, i, step, stop, new))
    ELSE DivideLoop(vals, i + 1, step, stop,
                    TurnResult(i, step, stop, result, new),
                    TurnNew(vals, i, step, stop, new))

\* __floordiv__ past its guards: step = size // value, stop = step * value
Divide(c, n) ==
    DivideLoop(ValuesOf(c, iter_nodes(c, FALSE).nodes), 0,
               c.size \div n, (c.size \div n) * n, <<>>, <<>>)

\* A divide that puts every element into the one chunk.
floordiv_Whole(c, n) ==
    IF n < 1 THEN Raise(c, "ValueError")
    ELSE IF n > c.size THEN [c EXCEPT !.ret = << <<>> >>, !.kind = "list"]
    ELSE [c EXCEPT !.ret = <<ValuesOf(c, iter_nodes(c, FALSE).nodes)>>,
                   !.kind = "list"]

\* CDLList.__floordiv__: the list of chunks
floordiv(c, n) ==
    IF n < 1 THEN Raise(c, "ValueError")
    ELSE IF n > c.size THEN [c EXCEPT !.ret = << <<>> >>, !.kind = "list"]
    ELSE [c EXCEPT !.ret = Divide(c, n), !.kind = "list"]

\* A remainder that answers an argument below 1 with a copy.
mod_NoRangeError(c, n) ==
    IF n < 1 THEN copy(c)
    ELSE IF n > c.size THEN copy(c)
    ELSE IF c.size % n # 0
    THEN getitem_slice(c, [start |-> <<0 - (c.size % n)>>, stop |-> <<>>,
                           step |-> <<>>])
    ELSE [c EXCEPT !.ret = <<>>, !.kind = "new"]

\* CDLList.__mod__
mod(c, n) ==
    IF n < 1 THEN Raise(c, "ValueError")
    ELSE IF n > c.size THEN copy(c)
    ELSE IF c.size % n # 0
    THEN getitem_slice(c, [start |-> <<0 - (c.size % n)>>, stop |-> <<>>,
                           step |-> <<>>])
    ELSE [c EXCEPT !.ret = <<>>, !.kind = "new"]

\* The tuple self // value, self % value
Pair(a, b) ==
    IF Failed(a) THEN a
    ELSE IF Failed(b) THEN b
    ELSE [b EXCEPT !.ret = <<a.ret, b.ret>>, !.kind = "tuple"]

\* CDLList.__divmod__
divmod(c, n) ==
    IF n < 1 THEN Raise(c, "ValueError")
    ELSE Pair(floordiv(c, n), mod(c, n))

\* validate.assert_types: the wrapper looks up every name of its type
\* mapping among the parameters of the function it wraps, params[arg_name].
assert_types(params, names) ==
    IF names \subseteq params THEN "none" ELSE "KeyError"

\* self.__class__(chain(self, other))
Chained(g, other) ==
    IF Failed(g) THEN g ELSE [g EXCEPT !.ret = g.ret \o other]

\* CDLList.__add__(self, other), decorated with assert_types(value=Iterable)
add(c, other) ==
    IF assert_types({"self", "other"}, {"value"}) # "none"
    THEN Raise(c, assert_types({"self", "other"}, {"value"}))
    ELSE Chained(copy(c), other)

\* c.extend(c): from_iterable consumes the whole iteration of the container
\* before anything is linked.
extend_self(c) ==
    IF iter_nodes(c, FALSE).ends
    THEN extend(c, ValuesOf(c, iter_nodes(c, FALSE).nodes))
    ELSE Raise(c, "NonTermination")

----------------------------------------------------------------------------
(* The CLList variant (cll.py).  Its Node, head and tail properties,       *)
(* append, from_iterable, copy and forward iteration are statement by      *)
(* statement those of CDLList and are modelled by the same operators; its  *)
(* reverse iteration and its rotations differ.                             *)

\* CLList.iter_nodes as peek consumes it: the i-th node (from 0) yielded,
\* None if the generator stops before.  In reverse the walk stops on
\* reaching head, which is not yielded.
RECURSIVE CllNthYield(_, _, _, _, _)
CllNthYield(c, reverse, current, i, index) ==
    IF i = index THEN current
    ELSE IF (IF reverse THEN c.left[current] ELSE c.right[current]) = c.head
    THEN None
    ELSE CllNthYield(c, reverse,
                     IF reverse THEN c.left[current] ELSE c.right[current],
                     i + 1, index)

\* CLList.peek(index, node=True, errors='raise')
cll_peek(c, index) ==
    IF Normalize(c, index) < 0 \/ Normalize(c, index) >= c.size THEN OutOfRange
    ELSE IF Normalize(c, index) > (c.size \div 2)
    THEN CllNthYield(c, TRUE, c.left[c.head], 0, c.size - Normalize(c, index) - 1)
    ELSE CllNthYield(c, FALSE, c.head, 0, Normalize(c, index))

\* CLList.__rshift__ and CLList.__lshift__ (toLeft), which call each other.
\* For 0 < by < size, __lshift__ returns self as it is.
RECURSIVE cll_shift(_, _, _)
cll_shift(c, by, toLeft) ==
    IF by = 0 THEN copy(c)
    ELSE IF by < 0 THEN cll_shift(c, 0 - by, ~toLeft)
    ELSE IF by >= c.size
    THEN (IF c.size # 0 THEN [c EXCEPT !.kind = "self"]
          ELSE Raise(c, "ZeroDivisionError"))
    ELSE IF toLeft THEN [c EXCEPT !.kind = "self"]
    ELSE Reseat(c, cll_peek(c, by))

cll_rshift(c, by) == cll_shift(c, by, FALSE)
cll_lshift(c, by) == cll_shift(c, by, TRUE)

----------------------------------------------------------------------------
(* The state machine: a container is constructed, then public calls are    *)
(* made on it, one action per call.                                        *)

\* Element values are opaque to the container: the constructor is given
\* 1..n, and calls add values not used before construction.
Iota(n) == [k \in 1..n |-> k]
NewValue == MaxLen + 1
NewSeq(n) == [k \in 1..n |-> MaxLen + k]

Fresh ==
    [value |-> [n \in Nodes |-> 0], left |-> [n \in Nodes |-> n],
     right |-> [n \in Nodes |-> n], head |-> None, size |-> 0,
     used |-> {}, new |-> None, err |-> "none", ret |-> <<>>, kind |-> "none"]

\* __init__: if new: self._head = new.head; self._size = new.size
Adopt(c, new) ==
    IF new.size # 0 THEN [new EXCEPT !.head = new.head, !.size = new.size] ELSE c

\* CDLList.__init__ with an iterable
init_iterable(vs) == Adopt(Fresh, from_iterable(Fresh, vs))

\* __init__: self._head = Node(value); self._size += 1
AdoptNode(c) == [c EXCEPT !.head = c.new, !.size = c.size + 1]

\* CDLList.__init__ with a single value that is no iterable
init_value(v) == AdoptNode(NodeInit(Fresh, v, None, None))

\* The container record of the current state, at the start of a call.
Start ==
    [value |-> value, left |-> left, right |-> right,
     head |-> head, size |-> size,
     used |-> Reach([left |-> left, right |-> right, head |-> head]),
     new |-> None, err |-> "none", ret |-> <<>>, kind |-> "none"]

\* The heap once the nodes outside live are reclaimed.
Keep(c, live) ==
    [c EXCEPT !.value = [n \in Nodes |-> IF n \in live THEN c.value[n] ELSE 0],
              !.left = [n \in Nodes |-> IF n \in live THEN c.left[n] ELSE n],
              !.right = [n \in Nodes |-> IF n \in live THEN c.right[n] ELSE n]]

\* The heap once the nodes unreachable from head are reclaimed.
Collect(c) == Keep(c, Reach(c))

Outcome(c, op, args) ==
    [op |-> op, args |-> args, ret |-> c.ret, kind |-> c.kind, err |-> c.err]

\* The state after construction.
InstallState(g, op, args) ==
    /\ value = g.value
    /\ left = g.left
    /\ right = g.right
    /\ head = g.head
    /\ size = g.size
    /\ calls = 0
    /\ last = Outcome(g, op, args)

Install(c, op, args) == InstallState(Collect(c), op, args)

\* The end of a public call.
CommitState(g, op, args) ==
    /\ calls < MaxCalls
    /\ value' = g.value
    /\ left' = g.left
    /\ right' = g.right
    /\ head' = g.head
    /\ size' = g.size
    /\ calls' = calls + 1
    /\ last' = Outcome(g, op, args)

Commit(c, op, args) == CommitState(Collect(c), op, args)

Init ==
    \/ \E n \in 0..MaxLen : Install(init_iterable(Iota(n)), "__init__", <<Iota(n)>>)
    \/ Install(init_value(1), "__init__value", <<1>>)

\* Arguments of the calls.
Indices == (0 - size - 1)..(size + 1)
Iterables == {NewSeq(n) : n \in 0..MaxVals}
\* The sequences other containers are built from: 1..n, and what the
\* container itself yields.
Others ==
    {Iota(n) : n \in 0..MaxLen}
        \cup (IF iter_nodes(Start, FALSE).ends
              THEN {ValuesOf(Start, iter_nodes(Start, FALSE).nodes)} ELSE {})
Relations == {"lt", "le", "gt", "ge"}
\* The errors policies of peek: the two it knows and one it does not.
Policies == {"raise", "ignore", "warn"}
Shifts == 0..(size + 1)
Divisors == (0 - 1)..(size + 1)
\* Ranges: the whole container, empty ranges, contiguous ranges at the head,
\* inside and at the tail, descending and extended ranges, and a zero step.
Sl(a, b, st) == [start |-> a, stop |-> b, step |-> st]
Slices ==
    { Sl(<<>>, <<>>, <<>>), Sl(<<>>, <<>>, <<0 - 1>>), Sl(<<0>>, <<size>>, <<1>>),
      Sl(<<0>>, <<0>>, <<>>), Sl(<<1>>, <<1>>, <<>>), Sl(<<size>>, <<size>>, <<>>),
      Sl(<<0>>, <<1>>, <<>>), Sl(<<>>, <<2>>, <<>>), Sl(<<1>>, <<2>>, <<>>),
      Sl(<<1>>, <<>>, <<>>), Sl(<<0 - 1>>, <<>>, <<>>), Sl(<<1>>, <<0 - 1>>, <<>>),
      Sl(<<1>>, <<>>, <<0 - 1>>), Sl(<<>>, <<0>>, <<0 - 1>>),
      Sl(<<>>, <<>>, <<2>>), Sl(<<1>>, <<>>, <<2>>), Sl(<<>>, <<>>, <<0 - 2>>),
      Sl(<<>>, <<>>, <<0>>) }

AppendCall == Commit(append(Start, NewValue), "append", <<NewValue>>)
AppendLeft == Commit(appendleft(Start, NewValue), "appendleft", <<NewValue>>)
Insert(i) == Commit(insert(Start, i, NewValue), "insert", <<i, NewValue>>)
Pop(i) == Commit(pop(Start, i), "pop", <<i>>)
PopLeft == Commit(popleft(Start), "popleft", <<>>)
Clear == Commit(clear(Start), "clear", <<>>)
Extend(vs) == Commit(extend(Start, vs), "extend", <<vs>>)
SetItem(i) == Commit(setitem_int(Start, i, NewValue), "setitem", <<i, NewValue>>)
DelItem(i) == Commit(delitem_int(Start, i), "delitem", <<i>>)
SetSlice(sl, vs) == Commit(setitem_slice(Start, sl, vs), "setslice", <<sl, vs>>)
DelSlice(sl) == Commit(delitem_slice(Start, sl), "delslice", <<sl>>)
GetSlice(sl) == Commit(getitem_slice(Start, sl), "getslice", <<sl>>)
WriteBack(sl) == Commit(writeback(Start, sl), "writeback", <<sl>>)
RShift(by) == Commit(rshift(Start, by), "rshift", <<by>>)
LShift(by) == Commit(lshift(Start, by), "lshift", <<by>>)
HeadCall == Commit(head_get(Start), "head", <<>>)
TailCall == Commit(tail_get(Start), "tail", <<>>)
Iter == Commit(iterate(Start, FALSE), "iter", <<>>)
Reversed == Commit(iterate(Start, TRUE), "reversed", <<>>)
RoundTrip(by) == Commit(roundtrip(Start, by), "roundtrip", <<by>>)
FloorDiv(n) == Commit(floordiv(Start, n), "floordiv", <<n>>)
Mod(n) == Commit(mod(Start, n), "mod", <<n>>)
DivMod(n) == Commit(divmod(Start, n), "divmod", <<n>>)
Add(vs) == Commit(add(Start, vs), "add", <<vs>>)
ExtendSelf == Commit(extend_self(Start), "extend_self", <<>>)
SetSliceScalar(sl) ==
    Commit(setitem_slice_scalar(Start, sl), "setslice_scalar", <<sl, NewValue>>)
ExtendScalar == Commit(extend_scalar(Start), "extend_scalar", <<NewValue>>)
Copy == Commit(copy(Start), "copy", <<>>)
Eq(vs) == Commit(eq(Start, vs), "eq", <<vs>>)
EqReflected(vs) == Commit(eq_reflected(Start, vs), "eq_reflected", <<vs>>)
Peek(i, errors) == Commit(peek_value(Start, i, errors), "peek", <<i, errors>>)
Order(rel, vs, side) == Commit(order(Start, rel, vs, side), rel, <<vs, side>>)

Next ==
    \/ AppendCall
    \/ AppendLeft
    \/ \E i \in Indices : Insert(i)
    \/ \E i \in Indices : Pop(i)
    \/ PopLeft
    \/ Clear
    \/ \E vs \in Iterables : Extend(vs)
    \/ \E i \in Indices : SetItem(i)
    \/ \E i \in Indices : DelItem(i)
    \/ \E sl \in Slices, vs \in Iterables : SetSlice(sl, vs)
    \/ \E sl \in Slices : DelSlice(sl)
    \/ \E sl \in Slices : GetSlice(sl)
    \/ \E sl \in Slices : WriteBack(sl)
    \/ \E by \in Indices : RShift(by)
    \/ \E by \in Indices : LShift(by)
    \/ HeadCall
    \/ TailCall
    \/ Iter
    \/ Reversed
    \/ \E by \in Shifts : RoundTrip(by)
    \/ \E n \in Divisors : FloorDiv(n)
    \/ \E n \in Divisors : Mod(n)
    \/ \E n \in Divisors : DivMod(n)
    \/ \E vs \in Iterables : Add(vs)
    \/ ExtendSelf
    \/ \E sl \in Slices : SetSliceScalar(sl)
    \/ ExtendScalar
    \/ Copy
    \/ \E vs \in Others : Eq(vs)
    \/ \E vs \in Others : EqReflected(vs)
    \/ \E rel \in Relations, vs \in Others, side \in {"left", "right"} :
           Order(rel, vs, side)
    \/ \E i \in Indices, errors \in Policies : Peek(i, errors)

Spec == Init /\ [][Next]_vars

\* A container that, once constructed, is changed by insert, pop and
\* popleft only.
NextMutators ==
    \/ \E i \in Indices : Insert(i)
    \/ \E i \in Indices : Pop(i)
    \/ PopLeft

SpecMutators == Init /\ [][NextMutators]_vars

\* CLList.__init__ with an iterable
cll_init(vs) == Adopt(Fresh, from_iterable(Fresh, vs))

\* The CLList variant: a container built from range(n), then rotated and read.
Range(n) == [k \in 1..n |-> k - 1]

InitCLL ==
    \E n \in 0..FixtureLen : Install(cll_init(Range(n)), "CLList", <<Range(n)>>)

CllRShift(by) == Commit(cll_rshift(Start, by), "cll_rshift", <<by>>)
CllLShift(by) == Commit(cll_lshift(Start, by), "cll_lshift", <<by>>)
CllHead == Commit(head_get(Start), "cll_head", <<>>)
CllTail == Commit(tail_get(Start), "cll_tail", <<>>)

NextCLL ==
    \/ \E by \in Indices : CllRShift(by)
    \/ \E by \in Indices : CllLShift(by)
    \/ CllHead
    \/ CllTail

SpecCLL == InitCLL /\ [][NextCLL]_vars

----------------------------------------------------------------------------
(* What a caller observes of a state.                                      *)

\* list(c): err is "none" and ret the values when the iteration ends.
ForwardNow == iterate(Start, FALSE)
\* The nodes forward iteration visits (the cycle of head).
CycleNodes == iter_nodes(Start, FALSE).nodes
\* Forward iteration ends and yields exactly size values.
Countable == ForwardNow.err = "none" /\ Len(ForwardNow.ret) = size

\* s with v put before the element at position i (from 0).
Inserted(s, i, v) == SubSeq(s, 1, i) \o <<v>> \o SubSeq(s, i + 1, Len(s))

----------------------------------------------------------------------------
(* Ring structure.                                                         *)

\* C1 as the specification states it: in every state every node n on the
\* cycle of head has n.left.right = n and n.right.left = n.
C1_RingLinksAgree ==
    \A n \in {CycleNodes[k] : k \in 1..Len(CycleNodes)} :
        right[left[n]] = n /\ left[right[n]] = n

\* C2 as the specification states it: whenever size >= 1, following right
\* from head comes back to head after exactly size steps and not sooner.
C2_CycleLengthIsSize ==
    size >= 1 =>
        /\ iter_nodes(Start, FALSE).ends
        /\ Len(CycleNodes) = size

----------------------------------------------------------------------------
(* Removal and insertion at a position.                                    *)

\* The call taken by this step removes the first element.
RemovesFirst ==
    \/ last'.op = "popleft"
    \/ last'.op = "pop" /\ Normalize(Start, last'.args[1]) = 0

\* C3 as the specification states it: on a container of size >= 2,
\* removing the first element returns the old first value, lowers size by
\* one, makes the old head's right neighbour the head, and leaves forward
\* iteration yielding exactly the former elements 1..size-1.
C3_RemoveFirst ==
    [][(size >= 2 /\ Countable /\ RemovesFirst) =>
          /\ last'.err = "none"
          /\ last'.ret = <<value[head]>>
          /\ size' = size - 1
          /\ head' = right[head]
          /\ ForwardNow'.err = "none"
          /\ ForwardNow'.ret = Tail(ForwardNow.ret)]_vars

\* The call taken by this step is insert(i, v) with -size <= i <= size.
InsertsAtValidIndex ==
    /\ last'.op = "insert"
    /\ last'.args[1] >= 0 - size
    /\ last'.args[1] <= size

\* C4 as the specification states it: insert(i, v) with a valid index
\* raises size by one and puts v immediately before the element that was
\* at the normalized position i.
C4_InsertBefore ==
    [][(Countable /\ InsertsAtValidIndex) =>
          /\ last'.err = "none"
          /\ size' = size + 1
          /\ ForwardNow'.err = "none"
          /\ ForwardNow'.ret =
                 Inserted(ForwardNow.ret, Normalize(Start, last'.args[1]),
                          last'.args[2])]_vars

----------------------------------------------------------------------------
(* Construction.                                                           *)

\* The state is that of a container just built from a sequence.
BuiltFrom(vs) == last.op = "__init__" /\ last.args = <<vs>>

\* C5: a container built from the sequence v0..v(n-1) has size n, forward
\* iteration yields v0..v(n-1) in order, and for n >= 1 head holds v0 and
\* tail holds v(n-1).
C5_BuiltFromSequence ==
    \A n \in 0..MaxLen :
        BuiltFrom(Iota(n)) =>
            /\ size = n
            /\ ForwardNow.err = "none"
            /\ ForwardNow.ret = Iota(n)
            /\ n >= 1 =>
                  /\ head_get(Start).err = "none"
                  /\ value[head_get(Start).ret[1]] = Iota(n)[1]
                  /\ tail_get(Start).err = "none"
                  /\ value[tail_get(Start).ret[1]] = Iota(n)[n]

C5_Witness == BuiltFrom(Iota(MaxLen)) /\ size = MaxLen /\ value[left[head]] = MaxLen

\* C6 as the specification states it: reverse iteration over a container
\* built from v0..v(n-1) yields v(n-1)..v0, exactly n values, n = 1 included.
C6_ReversedOfBuilt ==
    [][(last.op = "__init__" /\ last'.op = "reversed") =>
          /\ last'.err = "none"
          /\ last'.ret = Reverse(last.args[1])]_vars

----------------------------------------------------------------------------
(* The empty container.                                                    *)

\* C7 as the specification states it: pop() on an empty container fails
\* with the empty-access error, not with a plain out-of-range IndexError.
C7_PopOnEmpty ==
    [][(size = 0 /\ last'.op = "pop" /\ last'.args = <<0 - 1>>) =>
          last'.err = "EmptyInstanceHeadAccess"]_vars

\* C8: in every state, size = 0 exactly when the head is absent.
C8_EmptyIffNoHead == (size = 0) <=> (head = None)

C8_Witness ==
    /\ last.op = "popleft" /\ last.err = "none"
    /\ size = 0 /\ head = None

\* The call taken by this step reads head or tail.
ReadsEnd == last'.op = "head" \/ last'.op = "tail"

\* C9: when size = 0, reading head or tail fails with the empty-access
\* error and leaves the container as it was; when size >= 1 both succeed,
\* head gives the head node and tail gives head.left.
C9_HeadAndTail ==
    [][ReadsEnd =>
          IF size = 0
          THEN /\ last'.err = "EmptyInstanceHeadAccess"
               /\ UNCHANGED <<value, left, right, head, size>>
          ELSE /\ last'.err = "none"
               /\ last'.kind = "node"
               /\ last'.ret = IF last'.op = "head" THEN <<head>>
                                                   ELSE <<left[head]>>]_vars

C9_Witness ==
    /\ last.op = "tail" /\ last.err = "none"
    /\ size >= 3 /\ last.ret = <<left[head]>>

----------------------------------------------------------------------------
(* Removal from the interior.                                              *)

\* The nodes reachable from head.
ReachNow == Reach(Start)

\* s without its element at position i (from 0).
Removed(s, i) == SubSeq(s, 1, i) \o SubSeq(s, i + 2, Len(s))

\* The call taken by this step is pop(i) with 0 < i < size after
\* normalization.
PopsInterior ==
    /\ last'.op = "pop"
    /\ size >= 2
    /\ Normalize(Start, last'.args[1]) > 0
    /\ Normalize(Start, last'.args[1]) < size

\* The node at the position the call names.
Target == CycleNodes[Normalize(Start, last'.args[1]) + 1]

\* C10 as the specification states it: pop(i) on an interior position
\* returns the value at position i, links the removed node's neighbours to
\* each other, lowers size by one, keeps head, and leaves the removed node
\* unreachable.
C10_PopInterior ==
    [][(Countable /\ PopsInterior) =>
          /\ last'.err = "none"
          /\ last'.ret = <<value[Target]>>
          /\ right'[left[Target]] = right[Target]
          /\ left'[right[Target]] = left[Target]
          /\ size' = size - 1
          /\ head' = head
          /\ Target \notin ReachNow'
          /\ ForwardNow'.err = "none"
          /\ ForwardNow'.ret =
                 Removed(ForwardNow.ret, Normalize(Start, last'.args[1]))]_vars

----------------------------------------------------------------------------
(* Writing and deleting ranges.                                            *)

\* The larger of two integers.
Max(a, b) == IF a >= b THEN a ELSE b

\* The positions a slice names on the container as it is before the call.
PointsOf(sl) == SliceIndices(sl, size)

\* The built-in list's s[start:stop] = vs, for positions r with step 1.
ListSetRun(s, r, vs) ==
    SubSeq(s, 1, r.start) \o vs \o SubSeq(s, Max(r.start, r.stop) + 1, Len(s))

\* The built-in list's del s[start:stop:step]: s without the positions r,
\* from position k (from 1) on.
RECURSIVE ListDelFrom(_, _, _)
ListDelFrom(s, r, k) ==
    IF k > Len(s) THEN <<>>
    ELSE (IF InRange(k - 1, r) THEN <<>> ELSE <<s[k]>>) \o ListDelFrom(s, r, k + 1)

ListDel(s, r) == ListDelFrom(s, r, 1)

\* The call taken by this step writes vs to a range with step 1 that does
\* not cover the whole container.
WritesRun ==
    /\ last'.op = "setslice"
    /\ validate_integer_slice(last'.args[1]) = "none"
    /\ PointsOf(last'.args[1]).step = 1
    /\ RangeLen(PointsOf(last'.args[1])) # size

\* C11 as the specification states it: writing vs to a range with step 1
\* that does not cover the whole container (empty ranges included) leaves
\* forward content old[:start] ++ vs ++ old[stop:], size equal to the old
\* size minus the covered count plus len(vs), and, when vs is not empty and
\* the range begins at position 0, head at the first element of vs.
C11_WriteRun ==
    [][(Countable /\ WritesRun) =>
          /\ last'.err = "none"
          /\ ForwardNow'.err = "none"
          /\ ForwardNow'.ret =
                 ListSetRun(ForwardNow.ret, PointsOf(last'.args[1]), last'.args[2])
          /\ size' = size - RangeLen(PointsOf(last'.args[1])) + Len(last'.args[2])
          /\ (last'.args[2] # <<>> /\ PointsOf(last'.args[1]).start = 0) =>
                 value'[head'] = last'.args[2][1]]_vars

\* The call taken by this step deletes a range with |step| >= 2.
DeletesExtended ==
    /\ last'.op = "delslice"
    /\ validate_integer_slice(last'.args[1]) = "none"
    /\ \/ PointsOf(last'.args[1]).step >= 2
       \/ PointsOf(last'.args[1]).step <= 0 - 2

\* C12 as the specification states it: deleting a range with |step| >= 2,
\* ascending or descending, position 0 included, leaves forward content
\* equal to the old content without the range positions, the others in
\* their order, and lowers size by the number of range positions.
C12_DeleteExtended ==
    [][(Countable /\ DeletesExtended) =>
          /\ last'.err = "none"
          /\ ForwardNow'.err = "none"
          /\ ForwardNow'.ret = ListDel(ForwardNow.ret, PointsOf(last'.args[1]))
          /\ size' = size - RangeLen(PointsOf(last'.args[1]))]_vars

\* The call taken by this step deletes a range with step +1 or -1 that
\* covers k positions, 0 < k < size.
DeletesRun ==
    /\ last'.op = "delslice"
    /\ validate_integer_slice(last'.args[1]) = "none"
    /\ PointsOf(last'.args[1]).step \in {1, 0 - 1}
    /\ RangeLen(PointsOf(last'.args[1])) > 0
    /\ RangeLen(PointsOf(last'.args[1])) < size

\* The first node of the cycle whose position is not among the positions r.
FirstSurvivor(r) ==
    CycleNodes[Min({k \in 1..Len(CycleNodes) : ~InRange(k - 1, r)})]

\* C13 as the specification states it: deleting a range with step +1 or -1
\* that covers k positions, 0 < k < size, removes exactly those positions,
\* keeps the others in order, lowers size by k, preserves the ring
\* invariant, and makes the first surviving element the head when position
\* 0 was covered.
C13_DeleteRun ==
    [][(Countable /\ DeletesRun) =>
          /\ last'.err = "none"
          /\ ForwardNow'.err = "none"
          /\ ForwardNow'.ret = ListDel(ForwardNow.ret, PointsOf(last'.args[1]))
          /\ size' = size - RangeLen(PointsOf(last'.args[1]))
          /\ C1_RingLinksAgree => C1_RingLinksAgree'
          /\ InRange(0, PointsOf(last'.args[1])) =>
                 head' = FirstSurvivor(PointsOf(last'.args[1]))]_vars

\* The call taken by this step writes vs to a range with step -1 that covers
\* the whole of a non-empty container.
WritesWholeReversed ==
    /\ last'.op = "setslice"
    /\ validate_integer_slice(last'.args[1]) = "none"
    /\ size >= 1
    /\ PointsOf(last'.args[1]).step = 0 - 1
    /\ RangeLen(PointsOf(last'.args[1])) = size

\* C14 as the specification states it: writing vs to a range that covers
\* the whole container with step -1 clears the container and extends it
\* with the values in reversed order, so that the size becomes len(vs)
\* whatever the old size was.
C14_WriteWholeReversed ==
    [][WritesWholeReversed =>
          /\ last'.err = "none"
          /\ size' = Len(last'.args[2])
          /\ ForwardNow'.err = "none"
          /\ ForwardNow'.ret = Reverse(last'.args[2])]_vars

\* The built-in list's s[start:stop:step] = vs for as many values as
\* positions: position pts[k] takes vs[k].
ListSetPoints(s, pts, vs) ==
    [i \in 1..Len(s) |->
        IF \E k \in 1..Len(pts) : pts[k] = i - 1
        THEN vs[CHOOSE k \in 1..Len(pts) : pts[k] = i - 1]
        ELSE s[i]]

\* The call taken by this step writes vs to a range with a step other
\* than +1.
WritesExtended ==
    /\ last'.op = "setslice"
    /\ validate_integer_slice(last'.args[1]) = "none"
    /\ PointsOf(last'.args[1]).step # 1

\* C15 as the specification states it: a range write with a step other
\* than +1 fails with ValueError and leaves the container unchanged when
\* the number of values differs from the number of positions; otherwise it
\* assigns the values position by position in range order and leaves the
\* other positions and the size unchanged.
C15_WriteExtended ==
    [][(Countable /\ WritesExtended) =>
          IF Len(last'.args[2]) # RangeLen(PointsOf(last'.args[1]))
          THEN /\ last'.err = "ValueError"
               /\ UNCHANGED <<value, left, right, head, size>>
          ELSE /\ last'.err = "none"
               /\ size' = size
               /\ ForwardNow'.err = "none"
               /\ ForwardNow'.ret =
                      ListSetPoints(ForwardNow.ret,
                                    RangeSeq(PointsOf(last'.args[1])),
                                    last'.args[2])]_vars

----------------------------------------------------------------------------
(* Reading ranges.                                                         *)

\* The built-in list's s[start:stop:step], for the positions pts.
ListGet(s, pts) == [k \in 1..Len(pts) |-> s[pts[k] + 1]]

\* The call taken by this step reads a valid range.
ReadsRange ==
    /\ last'.op = "getslice"
    /\ validate_integer_slice(last'.args[1]) = "none"

\* C16 as the specification states it: reading a valid range (bounds
\* negative or out of bounds, any non-zero step) returns a new container
\* whose forward content is the built-in list slice of the receiver's
\* content, and leaves the receiver's size, head and links unchanged.
C16_ReadRange ==
    [][(Countable /\ ReadsRange) =>
          /\ last'.err = "none"
          /\ last'.kind = "new"
          /\ last'.ret = ListGet(ForwardNow.ret, RangeSeq(PointsOf(last'.args[1])))
          /\ UNCHANGED <<value, left, right, head, size>>]_vars

\* The call taken by this step is c[r] = c[r] for a valid range r.
WritesBack ==
    /\ last'.op = "writeback"
    /\ validate_integer_slice(last'.args[1]) = "none"

\* C17 as the specification states it: for any container and any valid
\* range r (empty ranges and the whole container included), c[r] = c[r]
\* leaves size and forward content unchanged.
C17_WriteBack ==
    [][(Countable /\ WritesBack) =>
          /\ last'.err = "none"
          /\ size' = size
          /\ ForwardNow'.err = "none"
          /\ ForwardNow'.ret = ForwardNow.ret]_vars

----------------------------------------------------------------------------
(* Rotation.                                                               *)

\* s rotated so that its element at position k (from 0) comes first.
RotatedSeq(s, k) == SubSeq(s, k + 1, Len(s)) \o SubSeq(s, 1, k)

\* The outcome of rotating the container, as it is before the call, by k
\* in the direction of the call op.
RotatedBy(op, k) == IF op = "rshift" THEN rshift(Start, k) ELSE lshift(Start, k)

\* The call taken by this step rotates a non-empty container by k >= size.
RotatesFar ==
    /\ last'.op \in {"rshift", "lshift"}
    /\ size >= 1
    /\ last'.args[1] >= size

\* C18 as the specification states it: on a non-empty container and for
\* k >= size, c >> k leaves the same head node and forward content as
\* c >> (k mod size), and c << k the same as c << (k mod size).
C18_RotateFar ==
    [][(Countable /\ RotatesFar) =>
          /\ head' = RotatedBy(last'.op, last'.args[1] % size).head
          /\ ForwardNow'.err = "none"
          /\ ForwardNow'.ret =
                 iterate(RotatedBy(last'.op, last'.args[1] % size), FALSE).ret]_vars

\* The call taken by this step is c >> k.
RotatesRight(k) == last'.op = "rshift" /\ last'.args = <<k>>

RotatesWithin ==
    /\ last'.op \in {"rshift", "lshift"}
    /\ size >= 2
    /\ last'.args[1] > 0
    /\ last'.args[1] < size

\* The position (from 0) of the element the call is to make the head.
NewHeadIndex ==
    IF last'.op = "rshift" THEN last'.args[1] ELSE size - last'.args[1]

\* C20 as the specification states it: on a container of size n >= 2 and
\* for 0 < k < n, c >> k makes the element formerly at index k the head
\* (forward content old[k:] ++ old[:k]) and c << k makes the element
\* formerly at index n - k the head (old[n-k:] ++ old[:n-k]).
C20_RotateWithin ==
    [][(Countable /\ RotatesWithin) =>
          /\ last'.err = "none"
          /\ head' = CycleNodes[NewHeadIndex + 1]
          /\ ForwardNow'.err = "none"
          /\ ForwardNow'.ret = RotatedSeq(ForwardNow.ret, NewHeadIndex)]_vars

\* The call taken by this step is (c >> k) << k, with k >= 0.
RoundTrips == last'.op = "roundtrip" /\ last'.args[1] >= 0

\* C21 as the specification states it: for any container, the empty and
\* the single-element one included, and any k >= 0, rotating right by k and
\* then left by k completes without error and leaves the head node and the
\* forward content as they were.
C21_RotateRoundTrip ==
    [][(Countable /\ RoundTrips) =>
          /\ last'.err = "none"
          /\ head' = head
          /\ ForwardNow'.err = "none"
          /\ ForwardNow'.ret = ForwardNow.ret]_vars

\* The call taken by this step is c >> k or c << k.
Rotates == last'.op \in {"rshift", "lshift"}

\* The nodes of the container after the step have the links and the value
\* they had before it.
NodesUntouched ==
    \A n \in ReachNow' :
        /\ left'[n] = left[n]
        /\ right'[n] = right[n]
        /\ value'[n] = value[n]

\* C22 as the specification states it: for every non-zero k, c >> k and
\* c << k return the receiver itself and change no node's left or right
\* link, no value and not the size; for k = 0 they return a new container
\* equal to the receiver and leave the receiver unchanged.
C22_RotateInPlace ==
    [][(Countable /\ Rotates) =>
          /\ last'.err = "none"
          /\ size' = size
          /\ NodesUntouched
          /\ last'.args[1] # 0 => last'.kind = "self"
          /\ last'.args[1] = 0 =>
                 /\ last'.kind = "new"
                 /\ last'.ret = ForwardNow.ret
                 /\ head' = head]_vars

----------------------------------------------------------------------------
(* Partition.                                                              *)

\* The sequences of ss one after the other.
RECURSIVE Flat(_)
Flat(ss) == IF ss = <<>> THEN <<>> ELSE Head(ss) \o Flat(Tail(ss))

\* The call taken by this step is c // n with 1 <= n <= size.
Divides ==
    /\ last'.op = "floordiv"
    /\ last'.args[1] >= 1
    /\ last'.args[1] <= size

\* The j-th (from 1) run of q elements of s.
Run(s, j, q) == SubSeq(s, (j - 1) * q + 1, j * q)

DivMods == last'.op = "divmod" /\ last'.args[1] >= 1

\* C24 as the specification states it: for every container, the empty one
\* included, and every n >= 1, the contents of the containers of c // n one
\* after the other, followed by the content of c % n, are the forward
\* content of c, and c itself is unchanged.
C24_PartitionLaw ==
    [][(Countable /\ DivMods) =>
          /\ last'.err = "none"
          /\ Flat(last'.ret[1]) \o last'.ret[2] = ForwardNow.ret
          /\ UNCHANGED <<value, left, right, head, size>>]_vars

\* The call taken by this step is c // n, c % n or divmod(c, n).
Partitions == last'.op \in {"floordiv", "mod", "divmod"}

\* C25: c // n, c % n and divmod(c, n) with n < 1 fail with ValueError and
\* leave the container unchanged; c // n with n > size returns a list that
\* holds exactly one container, which is empty.
C25_PartitionGuards ==
    [][Partitions =>
          /\ last'.args[1] < 1 =>
                 /\ last'.err = "ValueError"
                 /\ UNCHANGED <<value, left, right, head, size>>
          /\ (last'.op = "floordiv" /\ last'.args[1] > size) =>
                 /\ last'.err = "none"
                 /\ last'.kind = "list"
                 /\ last'.ret = << <<>> >>
                 /\ UNCHANGED <<value, left, right, head, size>>]_vars

C25_Witness ==
    /\ last.op = "mod" /\ last.args = <<0>> /\ last.err = "ValueError"
    /\ calls = 1 /\ size = MaxLen /\ ForwardNow.ret = Iota(MaxLen)

\* The call taken by this step is c % n with n >= 1.
Remainders == last'.op = "mod" /\ last'.args[1] >= 1

\* The last k elements of s.
Trailing(s, k) == SubSeq(s, Len(s) - k + 1, Len(s))

\* C26 as the specification states it: for every n >= 1, c % n returns a
\* new container holding the trailing size mod n elements of c in order,
\* which is empty when n divides size and a full copy of c when n > size;
\* c is left as it was.
C26_Remainder ==
    [][(Countable /\ Remainders) =>
          /\ last'.err = "none"
          /\ last'.kind = "new"
          /\ last'.ret = Trailing(ForwardNow.ret, size % last'.args[1])
          /\ size % last'.args[1] = 0 => last'.ret = <<>>
          /\ last'.args[1] > size => last'.ret = ForwardNow.ret
          /\ UNCHANGED <<value, left, right, head, size>>]_vars

----------------------------------------------------------------------------
(* Concatenation and growth at the ends.                                   *)

\* The call taken by this step is c + o.
Concats == last'.op = "add"

\* C27 as the specification states it: for any container c and any finite
\* iterable o, c + o succeeds and returns a new container whose forward
\* content is the content of c followed by the values of o, and c is left
\* as it was.
C27_Concat ==
    [][(Countable /\ Concats) =>
          /\ last'.err = "none"
          /\ last'.kind = "new"
          /\ last'.ret = ForwardNow.ret \o last'.args[1]
          /\ UNCHANGED <<value, left, right, head, size>>]_vars

\* The call taken by this step is c.extend(vs), vs possibly c itself.
Extends == last'.op \in {"extend", "extend_self"}

\* The values the call is given.
ExtendedWith ==
    IF last'.op = "extend" THEN last'.args[1] ELSE ForwardNow.ret

\* C28 as the specification states it: after extend(vs) on a container
\* with content old the forward content is old ++ vs, size has grown by
\* len(vs), the ring invariant holds and head is unchanged when old is not
\* empty; extend of an empty iterable leaves the container unchanged, and
\* extend of the container itself appends a copy of its own content.
C28_Extend ==
    [][(Countable /\ C1_RingLinksAgree /\ Extends) =>
          /\ last'.err = "none"
          /\ ForwardNow'.err = "none"
          /\ ForwardNow'.ret = ForwardNow.ret \o ExtendedWith
          /\ size' = size + Len(ExtendedWith)
          /\ C1_RingLinksAgree'
          /\ C2_CycleLengthIsSize'
          /\ size >= 1 => head' = head
          /\ ExtendedWith = <<>> => UNCHANGED <<value, left, right, head, size>>]_vars

\* The call taken by this step is c.append(v).
Appends == last'.op = "append"

\* C29 as the specification states it: append(v) raises size by one, makes a new node holding v the tail,
\* keeps the head when the container was not empty and makes the new node
\* the head when it was, and leaves the forward content old ++ [v].
C29_Append ==
    [][(ForwardNow.err = "none" /\ Appends) =>
          /\ last'.err = "none"
          /\ size' = size + 1
          /\ left'[head'] \notin ReachNow
          /\ value'[left'[head']] = last'.args[1]
          /\ size >= 1 => head' = head
          /\ size = 0 => head' = left'[head']
          /\ ForwardNow'.err = "none"
          /\ ForwardNow'.ret = Append(ForwardNow.ret, last'.args[1])]_vars

\* The call taken by this step is c.appendleft(v).
AppendsLeft == last'.op = "appendleft"

\* C30 as the specification states it: appendleft(v) raises size by one,
\* makes a new node holding v the head, keeps the tail node when the
\* container was not empty, and leaves the forward content [v] ++ old.
C30_AppendLeft ==
    [][(ForwardNow.err = "none" /\ AppendsLeft) =>
          /\ last'.err = "none"
          /\ size' = size + 1
          /\ head' \notin ReachNow
          /\ value'[head'] = last'.args[1]
          /\ size >= 1 => left'[head'] = left[head]
          /\ ForwardNow'.err = "none"
          /\ ForwardNow'.ret = <<last'.args[1]>> \o ForwardNow.ret]_vars

----------------------------------------------------------------------------
(* Failing calls.                                                          *)

\* The call taken by this step is insert(i, v) with i > size or i < -size.
InsertsOutOfRange ==
    /\ last'.op = "insert"
    /\ (last'.args[1] > size \/ last'.args[1] < 0 - size)

\* C31: insert(i, v) with i > size or i < -size fails with IndexError and
\* leaves size, head and all links as they were.
C31_InsertOutOfRange ==
    [][InsertsOutOfRange =>
          /\ last'.err = "IndexError"
          /\ UNCHANGED <<value, left, right, head, size>>]_vars

C31_Witness ==
    /\ last.op = "insert" /\ last.args = <<size + 1, NewValue>>
    /\ last.err = "IndexError" /\ calls = 1
    /\ size = MaxLen /\ ForwardNow.ret = Iota(MaxLen)

\* The call taken by this step reads, writes or deletes a range whose step
\* is 0.
UsesInvalidRange ==
    /\ last'.op \in {"getslice", "setslice", "delslice"}
    /\ validate_integer_slice(last'.args[1]) # "none"

\* C32 as the specification states it: a range read, range write or range
\* delete with a range that is no valid integer range (a step of 0) fails
\* with InvalidIntegerSliceError and leaves the container unchanged.
C32_InvalidRange ==
    [][UsesInvalidRange =>
          /\ last'.err = "InvalidIntegerSliceError"
          /\ UNCHANGED <<value, left, right, head, size>>]_vars

\* The call taken by this step fails with an exception.
CallFails == last'.err \notin {"none", "NonTermination"}

\* C33 as the specification states it: every public call that fails leaves
\* the size, the head and the forward content of the container exactly as
\* they were before the call.  It is stated here for the containers whose
\* ring is consistent and whose iteration yields size values.
C33_FailureIsAtomic ==
    [][(Countable /\ C1_RingLinksAgree /\ CallFails) =>
          /\ size' = size
          /\ head' = head
          /\ ForwardNow'.err = "none"
          /\ ForwardNow'.ret = ForwardNow.ret]_vars

----------------------------------------------------------------------------
(* Copies and comparisons.                                                 *)

\* The copy a call of copy() returns, built next to the container of the
\* state before the call, and that container in the heap holding both.
TheCopy == CopyOn(Start)
TheOriginal == Self(TheCopy, Start)

\* The outcomes of the mutating calls on a container c.
Mutations(c) ==
    {append(c, NewValue), appendleft(c, NewValue), popleft(c), clear(c)}
        \cup {insert(c, i, NewValue) : i \in Indices}
        \cup {pop(c, i) : i \in Indices}
        \cup {setitem_int(c, i, NewValue) : i \in Indices}
        \cup {delitem_int(c, i) : i \in Indices}
        \cup {extend(c, vs) : vs \in Iterables}
        \cup {setitem_slice(c, sl, NewSeq(MaxVals)) : sl \in Slices}
        \cup {delitem_slice(c, sl) : sl \in Slices}
        \cup {rshift(c, by) : by \in Indices}
        \cup {lshift(c, by) : by \in Indices}

\* In heap g the nodes of container c are as they are in c, and the
\* container of g has none of them.
Untouched(g, c) ==
    /\ Reach(g) \cap Reach(c) = {}
    /\ \A n \in Reach(c) :
           /\ g.value[n] = c.value[n]
           /\ g.left[n] = c.left[n]
           /\ g.right[n] = c.right[n]

\* The call taken by this step is c.copy(), on a container whose forward
\* iteration ends.
Copies == last'.op = "copy" /\ ForwardNow.err = "none"

\* C34 as the specification states it: copy() returns a container equal
\* to the original that shares no node with it; a mutating call on the copy
\* leaves the nodes of the original untouched and the two containers
\* disjoint, and a mutating call on the original does so for the copy.
C34_CopyIndependent ==
    [][Copies =>
          /\ last'.err = "none"
          /\ last'.kind = "new"
          /\ last'.ret = ForwardNow.ret
          /\ UNCHANGED <<value, left, right, head, size>>
          /\ Equal(View(TheOriginal), View(TheCopy)) = "true"
          /\ Reach(TheCopy) \cap ReachNow = {}
          /\ \A g \in Mutations(TheCopy) : Untouched(g, TheOriginal)
          /\ \A g \in Mutations(TheOriginal) : Untouched(g, TheCopy)]_vars

\* The call taken by this step compares the container with one built from
\* a sequence, on either side of ==.
Compares == last'.op \in {"eq", "eq_reflected"}

\* C35: two containers compare equal exactly when they have the same size
\* and forward iteration yields pairwise-equal values; containers of
\* different sizes are unequal, and the comparison changes nothing.
C35_Equality ==
    [][Compares =>
          /\ last'.err = "none"
          /\ last'.kind = "bool"
          /\ last'.ret = <<TRUE>> <=>
                 /\ size = Len(last'.args[1])
                 /\ ForwardNow.err = "none"
                 /\ ForwardNow.ret = last'.args[1]
          /\ size # Len(last'.args[1]) => last'.ret = <<FALSE>>
          /\ UNCHANGED <<value, left, right, head, size>>]_vars

C35_Witness ==
    /\ last.op = "eq" /\ last.err = "none" /\ calls = 2
    /\ last.ret = <<TRUE>> /\ size = MaxLen + 1
    /\ last.args = <<Append(Iota(MaxLen), NewValue)>>
    /\ ForwardNow.ret = Append(Iota(MaxLen), NewValue)

\* The call taken by this step orders the container and one built from a
\* sequence.
Orders == last'.op \in Relations

\* The sizes of the left and the right operand of the comparison.
LeftSize == IF last'.args[2] = "left" THEN size ELSE Len(last'.args[1])
RightSize == IF last'.args[2] = "left" THEN Len(last'.args[1]) ELSE size

\* C36: a < b, a <= b, a > b and a >= b depend on the sizes only: when both
\* containers are non-empty they are the integer comparison of the sizes,
\* and when either is empty < and <= are true and > and >= are false.
C36_OrderBySize ==
    [][Orders =>
          /\ last'.err = "none"
          /\ last'.kind = "bool"
          /\ (LeftSize >= 1 /\ RightSize >= 1) =>
                 last'.ret = <<IntCompare(last'.op, LeftSize, RightSize)>>
          /\ (LeftSize = 0 \/ RightSize = 0) =>
                 last'.ret = <<last'.op \in {"lt", "le"}>>
          /\ UNCHANGED <<value, left, right, head, size>>]_vars

C36_Witness ==
    /\ last.op = "gt" /\ last.args = <<Iota(0), "left">> /\ calls = 1
    /\ last.err = "none" /\ last.ret = <<FALSE>>
    /\ size = MaxLen /\ ForwardNow.ret = Iota(MaxLen)

----------------------------------------------------------------------------
(* Reading by position.                                                    *)

\* The call taken by this step is peek(i, errors=p) with a policy p that
\* is neither 'raise' nor 'ignore'.
PeeksWithUnknownPolicy ==
    last'.op = "peek" /\ last'.args[2] \notin {"raise", "ignore"}

\* C37 as the specification states it: peek with an errors policy other
\* than 'raise' or 'ignore' fails with an error for every index, in range
\* or out of range.
C37_UnknownPolicy ==
    [][(Countable /\ PeeksWithUnknownPolicy) => last'.err # "none"]_vars

----------------------------------------------------------------------------
(* The CLList variant                                                      *)

\* A left rotation of a CLList by k with 0 < k < size, on a container whose
\* forward iteration ends.
CllRotatesLeft ==
    /\ last'.op = "cll_lshift"
    /\ 0 < last'.args[1]
    /\ last'.args[1] < size
    /\ Countable

\* C38: on a CLList, c << k with 0 < k < size moves the head k positions to
\* the left: the node that was k places before the head becomes the head and
\* the order of the ring is kept; on the container built from range(10),
\* c << 1 leaves head.value == 9 and tail.value == 8.
C38_CllLeftShift ==
    [][CllRotatesLeft =>
        /\ last'.err = "none"
        /\ head' = CycleNodes[size - last'.args[1] + 1]
        /\ size' = size
        /\ (ForwardNow.ret = Range(FixtureLen) /\ last'.args[1] = 1) =>
               (value'[head'] = 9 /\ value'[left'[head']] = 8)]_vars

----------------------------------------------------------------------------
(* Positions                                                               *)

\* The node j steps to the right of n: what forward iteration yields j-th.
RECURSIVE RightOf(_, _)
RightOf(n, j) == IF j = 0 THEN n ELSE RightOf(right[n], j - 1)

\* peek(j) and c[j] both return the value forward iteration yields j-th.
ReadsForward(j) ==
    /\ peek_value(Start, j, "ignore") = Return(Start, value[RightOf(head, j)])
    /\ getitem_int(Start, j) = Return(Start, value[RightOf(head, j)])

\* The state follows a successful insert(i, v) with i >= 0.
InsertedAtIndex ==
    /\ last.op = "insert"
    /\ last.err = "none"
    /\ last.args[1] >= 0

\* C39: in every reachable state whose forward iteration yields size values,
\* for every j with 0 <= j < size, peek(j) and c[j] return the j-th value of
\* forward iteration, whichever way the traversal walks; right after
\* insert(i, v), c[i] is v.
C39_PeekIsForward ==
    Countable =>
        /\ \A j \in 0..(size - 1) : ReadsForward(j)
        /\ InsertedAtIndex =>
               getitem_int(Start, last.args[1]) = Return(Start, last.args[2])

----------------------------------------------------------------------------
(* Backward iteration                                                      *)

BackwardNow == iterate(Start, TRUE)

\* C40: after any sequence of insert, pop and popleft calls, on a container
\* of size >= 2, backward iteration ends, yields exactly size values, and
\* these are the values of forward iteration in reverse order.
C40_BackwardIsReverse ==
    size >= 2 =>
        /\ BackwardNow.err = "none"
        /\ Len(BackwardNow.ret) = size
        /\ ForwardNow.err = "none"
        /\ BackwardNow.ret = Reverse(ForwardNow.ret)

====
